---- MODULE Spec2Model ----
(***************************************************************************)
(* Model of the zeeu-api WebSocket relay: the connection pool of index.js  *)
(* and the ApiSocket session class (src/unnamed/part_000, the current      *)
(* revision of src/api-socket.js).                                         *)
(*                                                                         *)
(* One step of the model is one JavaScript task: a transport event handler *)
(* run to completion ('connection', 'message', 'close'), or the            *)
(* continuation of one promise (token verification, a store call), or one  *)
(* snapshot delivery of a live query.                                      *)
(***************************************************************************)
EXTENDS Naturals, Sequences, FiniteSets, TLC

\* ------------------------------------------------------------ universe

Null == "null"          \* JavaScript null
None == "-"             \* a request field that is not given

Sessions == {"s1", "s2"}
Focus == {"s1"}         \* the sessions that connect under Spec
ConnIds == {"c1", "c2"} \* values nanoid() can return in index.js
SIDs == {"a", "b"}      \* values nanoid() can return in ApiSocket

MaxQueries == 2         \* live queries one session opens in a run
MaxInFlight == 2        \* promises one session has pending at a time

\* auth.verifyIdToken(token): the uid of the decoded token, Null when the
\* promise rejects.
verifyIdToken(token) ==
  CASE token = "T1" -> "U1"
    [] token = "T2" -> "U2"
    [] OTHER -> Null

\* The values of the patient field of a chat document: this.#uid when
\* #getChatIdWithDoctor adds the document.
Patients == {"U1", "U2", Null}

\* The collection kinds each operation's switch knows.
SubscribeKinds == {"appointments", "chats", "messages", "user"}
GetKinds == {"appointments", "doctors", "user", "chatId"}
PostKinds == {"user", "message", "seen", "appointment"}

\* Requests as parsed by #parseMessage: {type, params}.
Req(type, token, collection, sid, ref) ==
  [type |-> type, token |-> token, collection |-> collection, sid |-> sid, ref |-> ref]

NoReq == Req(None, None, None, None, None)

\* The frames the client sends under Spec.
Requests ==
  {Req("verify", t, None, None, None) : t \in {"T1", "bad"}}
  \cup {Req("subscribe", None, c, None, "r1") : c \in {"user", "bogus"}}
  \cup {Req("unsubscribe", None, None, x, None) : x \in SIDs}
  \cup {Req("get", None, c, None, "r1") : c \in {"user", "bogus"}}
  \cup {Req("post", None, c, None, "r1") : c \in {"user", "bogus"}}
  \cup {Req(t, None, None, None, None) : t \in {"logout", "fetch", "ping"}}

\* Frames sent to the client: {event, data}; data keeps ref and sid.
Ev(event, ref, sid) == [event |-> event, ref |-> ref, sid |-> sid]

\* Calls made on the document store.
Op(op, coll, doc, val) == [op |-> op, coll |-> coll, doc |-> doc, val |-> val]

\* Pending promises.
Task(k, token, u, collection, ref, left) ==
  [k |-> k, token |-> token, u |-> u, collection |-> collection, ref |-> ref, left |-> left]

\* ------------------------------------------------------------ Map helpers
\* A JavaScript Map as a set of <<key, value>> pairs with distinct keys.

Keys(m) == {p[1] : p \in m}
MapHas(m, k) == k \in Keys(m)
MapGet(m, k) == (CHOOSE p \in m : p[1] = k)[2]
MapSet(m, k, v) == {p \in m : p[1] # k} \cup {<<k, v>>}
MapDelete(m, k) == {p \in m : p[1] # k}

Min(a, b) == IF a < b THEN a ELSE b

\* ------------------------------------------------------------ state

VARIABLES
  connectionPool, \* index.js: Map connection id -> session
  conn,           \* per session: "none", "open", "closed" (the transport)
  id,             \* per session: #id
  uid,            \* per session: #uid
  user,           \* per session: #user (the uid whose profile is cached)
  subscriptions,  \* per session: #subscriptions, sid -> handle
  queries,        \* per session: the live queries opened, by handle
  tasks,          \* per session: the pending promises
  crashed,        \* the process died of an uncaught exception
  verified,       \* per session: a verify-success was emitted
  authd,          \* per session: verify-success emitted and no logout since
  removals,       \* per session: calls of onClose's connectionPool.delete
  issued,         \* per session: the sids under which the session, while
                  \* authenticated, registered and announced subscriptions
  failing,        \* the live queries whose unsubscribe function throws
  chats,          \* the store: per patient, the chat documents with the doctor
  step            \* what the last task did

vars == <<connectionPool, conn, id, uid, user, subscriptions, queries, tasks,
          crashed, verified, authd, removals, issued, failing, chats, step>>

\* What one task did: its kind, its session, the request it handled (a
\* 'message'), the live query it served (a snapshot, else 0), the frames it
\* sent and the store calls it made.
Step(kind, s, req, h, events, ops) ==
  [kind |-> kind, s |-> s, req |-> req, h |-> h, events |-> events, ops |-> ops]

\* The fields of one ApiSocket, with what a handler run has emitted and
\* called so far.
Self(s) ==
  [uid |-> uid[s], user |-> user[s], subscriptions |-> subscriptions[s],
   queries |-> queries[s], tasks |-> tasks[s], failing |-> failing,
   chats |-> chats,
   events |-> <<>>, ops |-> {}, thrown |-> "no", spawned |-> 0]

\* The process starts with an empty pool; f are the live queries whose
\* unsubscribe function will throw when called.
InitWith(f) ==
  /\ connectionPool = {}
  /\ conn = [s \in Sessions |-> "none"]
  /\ id = [s \in Sessions |-> Null]
  /\ uid = [s \in Sessions |-> Null]
  /\ user = [s \in Sessions |-> Null]
  /\ subscriptions = [s \in Sessions |-> {}]
  /\ queries = [s \in Sessions |-> <<>>]
  /\ tasks = [s \in Sessions |-> {}]
  /\ crashed = FALSE
  /\ verified = [s \in Sessions |-> FALSE]
  /\ authd = [s \in Sessions |-> FALSE]
  /\ removals = [s \in Sessions |-> 0]
  /\ issued = [s \in Sessions |-> {}]
  /\ failing = f
  /\ chats = [p \in Patients |-> 0]
  /\ step = Step("init", None, NoReq, 0, <<>>, {})

\* Firestore's unsubscribe functions return normally.
Init == InitWith({})

\* ------------------------------------------------------------ ApiSocket

\* #emit(event, data)
emit(st, ev) == [st EXCEPT !.events = Append(@, ev)]

\* A store call made by the handler.
call(st, op) == [st EXCEPT !.ops = @ \cup {op}]

\* A promise the handler leaves pending.
await(st, task) == [st EXCEPT !.tasks = @ \cup {task}, !.spawned = @ + 1]

\* An exception leaving the handler: "sync" out of the event listener,
\* "async" as the rejection of a promise nobody handles.
throw(st, how) == [st EXCEPT !.thrown = how]

\* #newSubscriptionId() without the has() test of its loop.
newSubscriptionIdUnchecked(st) == SIDs

\* #newSubscriptionId(): the ids the do-while loop can return.
newSubscriptionId(st) == {x \in SIDs : ~MapHas(st.subscriptions, x)}

\* #setActiveStatus(status)
setActiveStatus(st, status) ==
  IF st.uid = Null THEN st
  ELSE call(st, Op("set", "users", st.uid, IF status THEN "active" ELSE "inactive"))

\* #verifyToken(token), up to the pending verifyIdToken promise.
verifyToken(st, token) == await(st, Task("verify", token, None, None, None, 1))

\* The .then callback of #verifyToken up to its await: #uid is set and
\* #fetchUser has asked the store for the profile.
verifyThen(st, task) ==
  LET u == verifyIdToken(task.token)
      a == [st EXCEPT !.uid = u, !.tasks = @ \ {task}]
  IN await(call(a, Op("get", "users", u, None)),
           Task("verifyFetch", task.token, u, None, None, 1))

\* The .catch callback of #verifyToken.
verifyCatch(st, task) == emit([st EXCEPT !.tasks = @ \ {task}], Ev("error", None, None))

\* #fetchUser() as called by the 'fetch' case of #handleMessage, up to its await.
fetchUser(st) ==
  await(call(st, Op("get", "users", st.uid, None)),
        Task("fetch", None, st.uid, None, None, 1))

\* #fetchUser() after its await: the profile is cached and fetch-success sent.
fetchUserDone(st, task) ==
  emit([st EXCEPT !.user = task.u, !.tasks = @ \ {task}], Ev("fetch-success", None, None))

\* The rest of the .then callback of #verifyToken, after #fetchUser.
verifyDone(st, task) ==
  emit(setActiveStatus(fetchUserDone(st, task), TRUE), Ev("verify-success", None, None))

\* onSnapshot(...) and #subscriptions.set(subscriptionId, unsubscribe)
openQuery(st, subscriptionId, kind) ==
  LET h == Len(st.queries) + 1
      a == call(st, Op("onSnapshot", kind, None, None))
  IN [a EXCEPT !.queries = Append(@, [kind |-> kind, cancels |-> 0]),
               !.subscriptions = MapSet(@, subscriptionId, h)]

\* #subscribeAppointments / #subscribeChats read this.#user.user_type.
subscribeAppointments(st, subscriptionId) ==
  IF st.user = Null THEN throw(st, "sync") ELSE openQuery(st, subscriptionId, "appointments")

subscribeChats(st, subscriptionId) ==
  IF st.user = Null THEN throw(st, "sync") ELSE openQuery(st, subscriptionId, "chats")

subscribeMessages(st, subscriptionId) == openQuery(st, subscriptionId, "messages")

subscribeUser(st, subscriptionId) == openQuery(st, subscriptionId, "user")

\* #handleSubscribe(params); sid is what #newSubscriptionId() returned.
handleSubscribe(st, params, sid) ==
  LET a == CASE params.collection = "appointments" -> subscribeAppointments(st, sid)
             [] params.collection = "chats" -> subscribeChats(st, sid)
             [] params.collection = "messages" -> subscribeMessages(st, sid)
             [] params.collection = "user" -> subscribeUser(st, sid)
             [] OTHER -> st
  IN IF a.thrown # "no" THEN a ELSE emit(a, Ev("subscribe-success", params.ref, sid))

\* Calling the unsubscribe function onSnapshot returned.
invoke(st, h) ==
  LET a == [st EXCEPT !.queries[h].cancels = Min(@ + 1, 2)]
  IN IF h \in st.failing THEN throw(a, "sync") ELSE a

\* #unsubscribe(subscriptionId) that forgets the entry without calling it.
unsubscribeForget(st, subscriptionId) ==
  [st EXCEPT !.subscriptions = MapDelete(@, subscriptionId)]

\* #unsubscribe(subscriptionId) without its has() test: get() of an unknown
\* id is undefined, and calling it throws.
unsubscribeUnguarded(st, subscriptionId) ==
  IF MapHas(st.subscriptions, subscriptionId)
  THEN [invoke(st, MapGet(st.subscriptions, subscriptionId))
          EXCEPT !.subscriptions = MapDelete(@, subscriptionId)]
  ELSE throw(st, "sync")

\* #unsubscribe(subscriptionId)
unsubscribe(st, subscriptionId) ==
  IF MapHas(st.subscriptions, subscriptionId)
  THEN LET a == invoke(st, MapGet(st.subscriptions, subscriptionId))
       IN IF a.thrown # "no" THEN a
          ELSE [a EXCEPT !.subscriptions = MapDelete(@, subscriptionId)]
  ELSE st

\* The for-of loop of #unsubscribeAll over the entries left to visit, in
\* the insertion order of the Map (the order the queries were opened in); an
\* exception ends the loop.
RECURSIVE invokeEach(_, _)
invokeEach(st, entries) ==
  IF entries = {} \/ st.thrown # "no" THEN st
  ELSE LET e == CHOOSE p \in entries : \A q \in entries : p[2] <= q[2]
       IN invokeEach(invoke(st, e[2]), entries \ {e})

\* #unsubscribeAll()
unsubscribeAll(st) == invokeEach(st, st.subscriptions)

\* #logout() that leaves the called entries in #subscriptions.
logoutKeepRegistry(st) ==
  LET a == unsubscribeAll(setActiveStatus(st, FALSE))
  IN [a EXCEPT !.uid = Null, !.user = Null]

\* #logout()
logout(st) ==
  LET a == unsubscribeAll(setActiveStatus(st, FALSE))
  IN IF a.thrown # "no" THEN a
     ELSE [a EXCEPT !.uid = Null, !.user = Null, !.subscriptions = {}]

\* #close(), up to the onClose callback.
close(st) ==
  LET a == unsubscribeAll(st)
  IN IF a.thrown # "no" THEN a ELSE setActiveStatus(a, FALSE)

\* #handleGet(params) up to its first await (or to its end when no store
\* call is awaited).
handleGet(st, params) ==
  CASE params.collection = "appointments" ->
         IF st.user = Null THEN throw(st, "async")
         ELSE await(call(st, Op("query", "appointments", st.uid, None)),
                    Task("get", None, None, "appointments", params.ref, 1))
    [] params.collection = "doctors" ->
         await(call(st, Op("query", "users", None, None)),
               Task("get", None, None, "doctors", params.ref, 1))
    [] params.collection = "user" ->
         await(call(st, Op("get", "users", None, None)),
               Task("get", None, None, "user", params.ref, 1))
    [] params.collection = "chatId" ->
         await(call(st, Op("query", "chats", st.uid, None)),
               Task("get", None, st.uid, "chatId", params.ref, 2))
    [] OTHER -> emit(st, Ev("get-success", params.ref, None))

\* #handlePost(params) up to its first await (or to its end).
handlePost(st, params) ==
  CASE params.collection = "user" ->
         await(call(st, Op("set", "users", None, "profile")),
               Task("post", None, None, "user", params.ref, 1))
    [] params.collection = "message" ->
         IF st.user = Null THEN throw(st, "async")
         ELSE await(call(st, Op("add", "messages", None, None)),
                    Task("post", None, None, "message", params.ref, 2))
    [] params.collection = "seen" ->
         IF st.user = Null THEN throw(st, "async")
         ELSE await(call(st, Op("update", "chats", None, "seen")),
                    Task("post", None, None, "seen", params.ref, 1))
    [] params.collection = "appointment" ->
         await(call(st, Op("get", "chats", None, None)),
               Task("post", None, None, "appointment", params.ref, 4))
    [] OTHER -> emit(st, Ev("post-success", params.ref, None))

\* The store call a pending #handleGet / #handlePost makes next, after the
\* one it awaited has resolved.
nextCall(st, task) ==
  CASE task.collection = "chatId" -> Op("add", "chats", st.uid, None)
    [] task.collection = "message" -> Op("update", "chats", None, "latest")
    [] task.collection = "appointment" /\ task.left = 4 -> Op("add", "appointments", None, None)
    [] task.collection = "appointment" /\ task.left = 3 -> Op("add", "messages", None, None)
    [] OTHER -> Op("update", "chats", None, "latest")

\* A pending #handleGet / #handlePost resumes: found tells whether the
\* chat query of #getChatIdWithDoctor returned a document, and whether the
\* chat document #setAppointment has read exists (it reads chat.doctor of
\* snapshot.data(), which is undefined for a document that does not exist).
\* A pending chat query carries the patient it asked for, a pending add of
\* a chat the patient of the new document; the document is in the store
\* when the add has completed.
resume(st, task, found) ==
  LET a == [st EXCEPT !.tasks = @ \ {task}]
      last == task.left = 1 \/ (task.collection = "chatId" /\ found)
      added == task.collection = "chatId" /\ task.left = 1
      b == IF added THEN [a EXCEPT !.chats[task.u] = Min(@ + 1, 2)] ELSE a
  IN IF task.collection = "appointment" /\ task.left = 4 /\ ~found
     THEN throw(a, "async")
     ELSE IF last
     THEN emit(b, Ev(IF task.k = "get" THEN "get-success" ELSE "post-success", task.ref, None))
     ELSE await(call(a, nextCall(a, task)),
                [task EXCEPT !.left = @ - 1,
                             !.u = IF task.collection = "chatId" THEN a.uid ELSE @])

\* A store call awaited by #handleGet / #handlePost / #fetchUser fails and
\* nobody handles the rejection.
reject(st, task) == throw([st EXCEPT !.tasks = @ \ {task}], "async")

\* #handleMessage(message) with a default label on the last case of its
\* switch.
handleMessageDefault(st, request, sid) ==
  LET a == IF request.type = "verify" THEN verifyToken(st, request.token) ELSE st
  IN IF a.uid = Null THEN a
     ELSE CASE request.type = "fetch" -> fetchUser(a)
            [] request.type = "subscribe" -> handleSubscribe(a, request, sid)
            [] request.type = "unsubscribe" -> unsubscribe(a, request.sid)
            [] request.type = "get" -> handleGet(a, request)
            [] request.type = "post" -> handlePost(a, request)
            [] request.type = "verify" -> a
            [] OTHER -> logout(a)

\* #handleMessage(message) after #parseMessage.
handleMessage(st, request, sid) ==
  LET a == IF request.type = "verify" THEN verifyToken(st, request.token) ELSE st
  IN IF a.uid = Null THEN a
     ELSE CASE request.type = "fetch" -> fetchUser(a)
            [] request.type = "subscribe" -> handleSubscribe(a, request, sid)
            [] request.type = "unsubscribe" -> unsubscribe(a, request.sid)
            [] request.type = "get" -> handleGet(a, request)
            [] request.type = "post" -> handlePost(a, request)
            [] request.type = "logout" -> logout(a)
            [] OTHER -> a

\* The snapshot listener of a live query that tags its frame by the
\* operation rather than by the collection.
onSnapshotUntagged(st, h) == emit(st, Ev("snapshot", None, None))

\* The snapshot listener of a live query.
onSnapshot(st, h) == emit(st, Ev(st.queries[h].kind, None, None))

\* ------------------------------------------------------------ actions

HasEvent(events, tag) == \E i \in 1..Len(events) : events[i].event = tag

\* The sids the subscribe-success events among these carry.
SidsOf(events) ==
  {events[i].sid : i \in {j \in 1..Len(events) : events[j].event = "subscribe-success"}}

\* The end of a handler run when #subscriptions is one Map shared by every
\* ApiSocket instead of a field of each.
ApplySharedRegistry(s, r, kind, req, h) ==
  /\ Cardinality(r.tasks) <= MaxInFlight
  /\ Len(r.queries) <= MaxQueries
  /\ uid' = [uid EXCEPT ![s] = r.uid]
  /\ user' = [user EXCEPT ![s] = r.user]
  /\ subscriptions' = [t \in Sessions |-> r.subscriptions]
  /\ queries' = [queries EXCEPT ![s] = r.queries]
  /\ tasks' = [tasks EXCEPT ![s] = r.tasks]
  /\ chats' = r.chats
  /\ \/ r.thrown = "no" /\ crashed' = FALSE
     \/ r.thrown = "async" /\ crashed' = FALSE
     \/ r.thrown # "no" /\ crashed' = TRUE
  /\ verified' = [verified EXCEPT ![s] = @ \/ HasEvent(r.events, "verify-success")]
  /\ authd' = [authd EXCEPT ![s] =
                 IF req.type = "logout" /\ uid[s] # Null THEN FALSE
                 ELSE @ \/ HasEvent(r.events, "verify-success")]
  /\ issued' = [issued EXCEPT ![s] =
                  IF authd[s] THEN @ \cup (SidsOf(r.events) \cap Keys(r.subscriptions)) ELSE @]
  /\ step' = Step(kind, s, req, h, r.events, r.ops)

\* The run of one task ends with the session's fields as in r.
Apply(s, r, kind, req, h) ==
  /\ Cardinality(r.tasks) <= MaxInFlight
  /\ Len(r.queries) <= MaxQueries
  /\ uid' = [uid EXCEPT ![s] = r.uid]
  /\ user' = [user EXCEPT ![s] = r.user]
  /\ subscriptions' = [subscriptions EXCEPT ![s] = r.subscriptions]
  /\ queries' = [queries EXCEPT ![s] = r.queries]
  /\ tasks' = [tasks EXCEPT ![s] = r.tasks]
  /\ chats' = r.chats
  /\ \/ r.thrown = "no" /\ crashed' = FALSE
     \/ r.thrown = "async" /\ crashed' = FALSE
     \/ r.thrown # "no" /\ crashed' = TRUE
  /\ verified' = [verified EXCEPT ![s] = @ \/ HasEvent(r.events, "verify-success")]
  /\ authd' = [authd EXCEPT ![s] =
                 IF req.type = "logout" /\ uid[s] # Null THEN FALSE
                 ELSE @ \/ HasEvent(r.events, "verify-success")]
  /\ issued' = [issued EXCEPT ![s] =
                  IF authd[s] THEN @ \cup (SidsOf(r.events) \cap Keys(r.subscriptions)) ELSE @]
  /\ step' = Step(kind, s, req, h, r.events, r.ops)

\* index.js newConnectionId() without the has() test of its loop.
newConnectionIdUnchecked == ConnIds

\* index.js newConnectionId(): the ids the do-while loop can return.
newConnectionId == {c \in ConnIds : ~MapHas(connectionPool, c)}

\* index.js wss.on('connection'): a session is constructed and pooled.
Connect(s) ==
  /\ ~crashed
  /\ conn[s] = "none"
  /\ \E c \in newConnectionId :
       /\ connectionPool' = MapSet(connectionPool, c, s)
       /\ id' = [id EXCEPT ![s] = c]
  /\ conn' = [conn EXCEPT ![s] = "open"]
  /\ uid' = [uid EXCEPT ![s] = Null]
  /\ user' = [user EXCEPT ![s] = Null]
  /\ subscriptions' = [subscriptions EXCEPT ![s] = {}]
  /\ step' = Step("connection", s, NoReq, 0, <<>>, {})
  /\ UNCHANGED <<queries, tasks, crashed, verified, authd, removals, issued, failing, chats>>

\* ws 'message': #handleMessage runs to its return.
HandleMessage(s, requests) ==
  /\ ~crashed
  /\ conn[s] = "open"
  /\ \E request \in requests :
       \E sid \in (IF request.type = "subscribe" /\ uid[s] # Null
                   THEN newSubscriptionId(Self(s)) ELSE {None}) :
         LET r == handleMessage(Self(s), request, sid)
         IN /\ Cardinality(r.tasks) = Cardinality(tasks[s]) + r.spawned
            /\ Apply(s, r, "message", request, 0)
  /\ UNCHANGED <<connectionPool, conn, id, removals, failing>>

\* auth.verifyIdToken resolves: the .then callback runs to its await.
VerifyResolve(s) ==
  /\ ~crashed
  /\ \E t \in tasks[s] :
       /\ t.k = "verify"
       /\ verifyIdToken(t.token) # Null
       /\ LET r == verifyThen(Self(s), t)
          IN /\ Cardinality(r.tasks) = Cardinality(tasks[s])
             /\ Apply(s, r, "verifyThen", NoReq, 0)
  /\ UNCHANGED <<connectionPool, conn, id, removals, failing>>

\* auth.verifyIdToken rejects: the .catch callback runs.
VerifyReject(s) ==
  /\ ~crashed
  /\ \E t \in tasks[s] :
       /\ t.k = "verify"
       /\ verifyIdToken(t.token) = Null
       /\ Apply(s, verifyCatch(Self(s), t), "verifyCatch", NoReq, 0)
  /\ UNCHANGED <<connectionPool, conn, id, removals, failing>>

\* The profile read of #fetchUser resolves.
FetchResolve(s) ==
  /\ ~crashed
  /\ \E t \in tasks[s] :
       \/ /\ t.k = "verifyFetch"
          /\ Apply(s, verifyDone(Self(s), t), "verifyDone", NoReq, 0)
       \/ /\ t.k = "fetch"
          /\ Apply(s, fetchUserDone(Self(s), t), "fetchDone", NoReq, 0)
  /\ UNCHANGED <<connectionPool, conn, id, removals, failing>>

\* The profile read of #fetchUser fails: inside #verifyToken the .catch
\* callback runs, for a 'fetch' request nobody handles the rejection.
FetchReject(s) ==
  /\ ~crashed
  /\ \E t \in tasks[s] :
       \/ /\ t.k = "verifyFetch"
          /\ Apply(s, verifyCatch(Self(s), t), "verifyCatch", NoReq, 0)
       \/ /\ t.k = "fetch"
          /\ Apply(s, reject(Self(s), t), "reject", NoReq, 0)
  /\ UNCHANGED <<connectionPool, conn, id, removals, failing>>

\* A store call awaited by #handleGet / #handlePost resolves; the chat query
\* of #getChatIdWithDoctor returns a document when the add of one for its
\* patient has completed.
StoreResolve(s) ==
  /\ ~crashed
  /\ \E t \in tasks[s] : \E found \in BOOLEAN :
       /\ t.k \in {"get", "post"}
       /\ found => \/ t.collection = "chatId" /\ t.left = 2
                   \/ t.collection = "appointment" /\ t.left = 4
       /\ (t.collection = "chatId" /\ t.left = 2) => (found <=> chats[t.u] > 0)
       /\ LET r == resume(Self(s), t, found)
          IN /\ Cardinality(r.tasks) = Cardinality(tasks[s]) - 1 + r.spawned
             /\ Apply(s, r, "resume", NoReq, 0)
  /\ UNCHANGED <<connectionPool, conn, id, removals, failing>>

\* A store call awaited by #handleGet / #handlePost fails.
StoreReject(s) ==
  /\ ~crashed
  /\ \E t \in tasks[s] :
       /\ t.k \in {"get", "post"}
       /\ Apply(s, reject(Self(s), t), "reject", NoReq, 0)
  /\ UNCHANGED <<connectionPool, conn, id, removals, failing>>

\* The store delivers a snapshot to a live query whose unsubscribe function
\* has not been called.
Push(s) ==
  /\ ~crashed
  /\ \E h \in 1..Len(queries[s]) :
       /\ queries[s][h].cancels = 0
       /\ Apply(s, onSnapshot(Self(s), h), "snapshot", NoReq, h)
  /\ UNCHANGED <<connectionPool, conn, id, removals, failing>>

\* ws 'close': #close runs and, unless an exception ended it, onClose
\* removes the session from the pool.
Close(s) ==
  /\ ~crashed
  /\ conn[s] = "open"
  /\ LET r == close(Self(s))
     IN /\ Apply(s, r, "close", NoReq, 0)
        /\ IF r.thrown = "no"
           THEN /\ connectionPool' = MapDelete(connectionPool, id[s])
                /\ removals' = [removals EXCEPT ![s] = Min(@ + 1, 2)]
           ELSE UNCHANGED <<connectionPool, removals>>
  /\ conn' = [conn EXCEPT ![s] = "closed"]
  /\ UNCHANGED <<id, failing>>

\* The tasks of one session whose client sends these requests.
Serve(s, requests) ==
  \/ Connect(s)
  \/ HandleMessage(s, requests)
  \/ VerifyResolve(s)
  \/ VerifyReject(s)
  \/ FetchResolve(s)
  \/ FetchReject(s)
  \/ StoreResolve(s)
  \/ StoreReject(s)
  \/ Push(s)
  \/ Close(s)

SessionNext(s) == Serve(s, Requests)

Next == \E s \in Focus : SessionNext(s)

Spec == Init /\ [][Next]_vars

\* ------------------------------------------------------------ faults
\* The same session when unsubscribe functions can throw and the client
\* sends frames that are not requests.

\* A frame as the transport delivers it: whether JSON.parse accepts its
\* text, whether the parsed object has a params member, and its fields.
Frame(parses, params, request) ==
  [parses |-> parses, params |-> params, request |-> request]

\* Frames that are no JSON, and requests without params.
Malformed ==
  {Frame(FALSE, FALSE, NoReq)}
  \cup {Frame(TRUE, FALSE, Req(t, None, None, None, None)) :
          t \in {"verify", "subscribe", "unsubscribe", "get", "post", "logout"}}

\* The requests of the client under SpecFaults.
FaultRequests ==
  {Req("verify", t, None, None, None) : t \in {"T1", "bad"}}
  \cup {Req("subscribe", None, "user", None, "r1"), Req("get", None, "user", None, "r1")}
  \cup {Req("logout", None, None, None, None)}
  \cup {Req("unsubscribe", None, None, x, None) : x \in SIDs}

\* #handleMessage(message) for a request whose params is undefined: reading
\* a member of params throws a TypeError, inside the listener for verify,
\* subscribe and unsubscribe, inside the promise of the async #handleGet /
\* #handlePost for get and post.
handleMessageNoParams(st, request) ==
  IF request.type = "verify" THEN throw(st, "sync")
  ELSE IF st.uid = Null THEN st
  ELSE CASE request.type \in {"subscribe", "unsubscribe"} -> throw(st, "sync")
         [] request.type \in {"get", "post"} -> throw(st, "async")
         [] request.type = "logout" -> logout(st)
         [] OTHER -> st

\* The 'message' listener on a frame: #parseMessage throws when JSON.parse
\* does, otherwise #handleMessage goes on with the parsed request.
onMessage(st, frame, sid) ==
  IF ~frame.parses THEN throw(st, "sync")
  ELSE IF frame.params THEN handleMessage(st, frame.request, sid)
  ELSE handleMessageNoParams(st, frame.request)

\* ws 'message' with a malformed frame.
HandleMalformed(s) ==
  /\ ~crashed
  /\ conn[s] = "open"
  /\ \E frame \in Malformed :
       Apply(s, onMessage(Self(s), frame, None), "malformed", frame.request, 0)
  /\ UNCHANGED <<connectionPool, conn, id, removals, failing>>

InitFaults == \E f \in SUBSET (1..MaxQueries) : InitWith(f)

NextFaults == \E s \in Focus : Serve(s, FaultRequests) \/ HandleMalformed(s)

SpecFaults == InitFaults /\ [][NextFaults]_vars

\* ------------------------------------------------------------ two sessions
\* Two connections served by the same process. Each client sends verify
\* while it has no subject and no verification pending, and subscribe,
\* unsubscribe and logout requests afterwards.

PairRequests(s) ==
  IF uid[s] = Null /\ tasks[s] = {}
  THEN {Req("verify", "T1", None, None, None)}
  ELSE IF s \in Focus
  THEN {Req("subscribe", None, "user", None, "r1"), Req("logout", None, None, None, None)}
       \cup {Req("unsubscribe", None, None, x, None) : x \in SIDs}
  ELSE {Req("subscribe", None, "user", None, "r1")}

NextPair ==
  \E s \in Sessions :
    \/ Connect(s)
    \/ HandleMessage(s, PairRequests(s))
    \/ VerifyResolve(s)
    \/ FetchResolve(s)
    \/ FetchReject(s)
    \/ Push(s)
    \/ Close(s)

SpecPair == Init /\ [][NextPair]_vars

\* ------------------------------------------------------------ one-shot operations
\* One session whose client verifies and, once it has received
\* verify-success, sends get and post requests under two refs; the calls on
\* the store all complete.

OneShotRequests(s) ==
  IF ~authd[s]
  THEN {Req("verify", "T1", None, None, None)}
  ELSE {Req("get", None, "user", None, ref) : ref \in {"r1", "r2"}}
       \cup {Req("get", None, "chatId", None, "r1")}
       \cup {Req("post", None, c, None, "r2") : c \in {"user", "appointment"}}

NextOneShot ==
  \E s \in Focus :
    \/ Connect(s)
    \/ HandleMessage(s, OneShotRequests(s))
    \/ VerifyResolve(s)
    \/ FetchResolve(s)
    \/ StoreResolve(s)
    \/ Close(s)

SpecOneShot == Init /\ [][NextOneShot]_vars

\* ------------------------------------------------------------ two subjects
\* One session whose client holds tokens of two subjects. It sends verify
\* while it has nothing pending and when it has received verify-success,
\* and chat-id lookups under two refs and logout only when it has received
\* verify-success; the calls on the store all complete.

SubjectRequests(s) ==
  IF authd[s]
  THEN {Req("verify", t, None, None, None) : t \in {"T1", "T2"}}
       \cup {Req("get", None, "chatId", None, ref) : ref \in {"r1", "r2"}}
       \cup {Req("logout", None, None, None, None)}
  ELSE IF tasks[s] = {}
  THEN {Req("verify", t, None, None, None) : t \in {"T1", "T2"}}
  ELSE {}

NextSubjects ==
  \E s \in Focus :
    \/ Connect(s)
    \/ HandleMessage(s, SubjectRequests(s))
    \/ VerifyResolve(s)
    \/ FetchResolve(s)
    \/ StoreResolve(s)
    \/ Close(s)

SpecSubjects == Init /\ [][NextSubjects]_vars

\* ------------------------------------------------------------ properties

WireTypes == {"verify", "subscribe", "unsubscribe", "get", "post", "logout"}
NonVerifyTypes == WireTypes \ {"verify"}

\* The last step was #handleMessage on a request of one of these types.
Handled(types) == step.kind = "message" /\ step.req.type \in types

\* The session of the last step did nothing the client or the store can see.
Silent == step.events = <<>> /\ step.ops = {}

\* The sids the last step returned in subscribe-success events.
Returned == SidsOf(step.events)

\* C1 (as claimed): a subscribe, unsubscribe, get, post or logout request
\* handled before the session's first verify-success produces no event and
\* no store read, write or live query.
C1_GateUntilVerifySuccess ==
  (Handled(NonVerifyTypes) /\ ~verified[step.s]) => Silent

\* C2 (as claimed): the sids returned in the subscribe-success events of one
\* authenticated session are pairwise distinct, whatever unsubscribe requests
\* come between the subscribe requests. Stated for the subscribe requests
\* that registered a subscription: the sid of each is none of the sids
\* earlier subscriptions of the session were announced under.
C2_SidsPairwiseDistinct ==
  [][\A x \in Returned' :
       (authd[step'.s] /\ MapHas(subscriptions'[step'.s], x)) => x \notin issued[step'.s]]_vars

\* C2 (amended): the sid returned in a subscribe-success event is none of
\* the ids the session's registry holds when the subscribe is handled.
C2_SidFreshInRegistry ==
  [][\A x \in Returned' : ~MapHas(subscriptions[step'.s], x)]_vars

\* C2 witness: a subscribe-success was sent for a second subscription while
\* an earlier one is still registered.
C2_SecondSubscription ==
  Handled({"subscribe"}) /\ Returned # {} /\ Cardinality(subscriptions[step.s]) = 2

\* The live queries of s whose unsubscribe function is in its registry.
Registered(s) == {p[2] : p \in subscriptions[s]}

\* C3: when a session past the gate handles unsubscribe(id) for a registered
\* id, the unsubscribe function of that subscription is called, for the
\* first and only time, and id leaves the registry; no unsubscribe function
\* is ever called twice; and every snapshot event a session sends belongs to
\* a subscription still in its registry, so none follows the unsubscribe.
C3_UnsubscribeCancelsOnce ==
  /\ [][\A s \in Sessions :
          (/\ step'.kind = "message" /\ step'.s = s
           /\ step'.req.type = "unsubscribe"
           /\ uid[s] # Null
           /\ MapHas(subscriptions[s], step'.req.sid))
          => LET h == MapGet(subscriptions[s], step'.req.sid)
             IN /\ queries[s][h].cancels = 0
                /\ queries'[s][h].cancels = 1
                /\ ~MapHas(subscriptions'[s], step'.req.sid)
                /\ h \notin Registered(s)']_vars
  /\ [](\A s \in Sessions : \A h \in 1..Len(queries[s]) : queries[s][h].cancels <= 1)
  /\ [](step.kind = "snapshot" => step.h \in Registered(step.s))

\* C3 witness: a subscription was unsubscribed while another one of the
\* session stays registered and live.
C3_Unsubscribed ==
  /\ Handled({"unsubscribe"}) /\ authd[step.s]
  /\ \E h \in 1..Len(queries[step.s]) :
       queries[step.s][h].cancels = 1 /\ h \notin Registered(step.s)
  /\ \E h \in Registered(step.s) : queries[step.s][h].cancels = 0

\* C4: an unsubscribe request naming an id that is not in the registry
\* changes nothing: no event, no store call, no unsubscribe function called,
\* no exception, and registry, #uid and #user as they were.
C4_UnknownSidNoOp ==
  [][\A s \in Sessions :
       (/\ step'.kind = "message" /\ step'.s = s
        /\ step'.req.type = "unsubscribe"
        /\ ~MapHas(subscriptions[s], step'.req.sid))
       => /\ step'.events = <<>> /\ step'.ops = {}
          /\ queries'[s] = queries[s]
          /\ subscriptions'[s] = subscriptions[s]
          /\ uid'[s] = uid[s] /\ user'[s] = user[s]
          /\ crashed' = crashed]_vars

\* C4 witness: an authenticated session holding a subscription has handled
\* an unsubscribe for an id its registry does not hold.
C4_UnknownSidHandled ==
  /\ Handled({"unsubscribe"}) /\ authd[step.s] /\ uid[step.s] # Null
  /\ subscriptions[step.s] # {}
  /\ ~MapHas(subscriptions[step.s], step.req.sid)
  /\ \A h \in 1..Len(queries[step.s]) : queries[step.s][h].cancels = 0

\* C5 (as claimed): a logout handled by a session past the gate leaves the
\* registry empty, #uid and #user null and every subscription cancelled, and
\* emits nothing; and from then until the next verify-success a subscribe,
\* unsubscribe, get or post request is dropped without event or store call.
C5_LogoutRestoresGate ==
  /\ (Handled({"logout"}) /\ step.ops # {})
     => /\ subscriptions[step.s] = {}
        /\ uid[step.s] = Null /\ user[step.s] = Null
        /\ step.events = <<>>
        /\ \A h \in 1..Len(queries[step.s]) : queries[step.s][h].cancels = 1
  /\ (Handled(NonVerifyTypes \ {"logout"}) /\ verified[step.s] /\ ~authd[step.s])
     => Silent

\* C6: a session is removed from the pool exactly once, by its close; no
\* unsubscribe function is ever called twice; and once the session is closed
\* every live query it opened has had its unsubscribe function called
\* exactly once, by the close or by an earlier unsubscribe or logout.
C6_CloseCancelsOnce ==
  \A s \in Sessions :
    /\ removals[s] = (IF conn[s] = "closed" THEN 1 ELSE 0)
    /\ \A h \in 1..Len(queries[s]) : queries[s][h].cancels <= 1
    /\ conn[s] = "closed"
       => /\ \A p \in connectionPool : p[2] # s
          /\ \A h \in 1..Len(queries[s]) : queries[s][h].cancels = 1

\* C6 witness: a close that found one subscription registered, after an
\* earlier one had been cancelled by an unsubscribe or a logout.
C6_ClosedWithSubscription ==
  /\ step.kind = "close"
  /\ Len(queries[step.s]) = 2
  /\ Cardinality(subscriptions[step.s]) = 1

\* C7 (as claimed): when verify-success is emitted #uid is set, the profile
\* is cached and the write of active=true for that subject has been issued.
C7_VerifySuccessState ==
  HasEvent(step.events, "verify-success")
  => /\ uid[step.s] # Null
     /\ user[step.s] # Null
     /\ Op("set", "users", uid[step.s], "active") \in step.ops

\* C8 (as claimed): when the handling of a verify request ends in the error
\* event on a session that has emitted no verify-success since it connected
\* or logged out, #uid is still null.
C8_FailedVerifyStaysOut ==
  (step.kind = "verifyCatch" /\ ~authd[step.s])
  => (HasEvent(step.events, "error") /\ uid[step.s] = Null)

\* C9 (as claimed): a subscribe, get or post request of an authenticated
\* session whose params.collection is none of the operation's kinds emits
\* no event and makes no store call.
C9_UnknownCollectionSilent ==
  (/\ Handled({"subscribe", "get", "post"}) /\ authd[step.s]
   /\ step.req.collection \notin
        (CASE step.req.type = "subscribe" -> SubscribeKinds
           [] step.req.type = "get" -> GetKinds
           [] OTHER -> PostKinds))
  => Silent

\* What a request leaves alone when it is ignored.
Ignored(s) ==
  /\ step'.events = <<>> /\ step'.ops = {}
  /\ uid'[s] = uid[s] /\ user'[s] = user[s]
  /\ subscriptions'[s] = subscriptions[s] /\ queries'[s] = queries[s]
  /\ tasks'[s] = tasks[s]
  /\ crashed' = crashed

\* C10 (as claimed): a request whose type is none of verify, subscribe,
\* unsubscribe, get, post, logout is ignored in any state.
C10_UnknownTypeIgnored ==
  [][\A s \in Sessions :
       (step'.kind = "message" /\ step'.s = s /\ step'.req.type \notin WireTypes)
       => Ignored(s)]_vars

\* C10 (amended): a request whose type is none of verify, subscribe,
\* unsubscribe, get, post, logout and fetch is ignored in any state; a fetch
\* request is ignored while #uid is null and otherwise reads the profile of
\* #uid from the store.
C10_UnhandledTypeIgnored ==
  [][\A s \in Sessions :
       (step'.kind = "message" /\ step'.s = s)
       => /\ step'.req.type \notin (WireTypes \cup {"fetch"}) => Ignored(s)
          /\ (step'.req.type = "fetch" /\ uid[s] = Null) => Ignored(s)
          /\ (step'.req.type = "fetch" /\ uid[s] # Null)
             => (step'.ops = {Op("get", "users", uid[s], None)} /\ step'.events = <<>>)]_vars

\* C10 witness: an authenticated session holding a subscription has handled
\* a request of an unknown type.
C10_UnknownTypeHandled ==
  /\ step.kind = "message" /\ step.req.type = "ping"
  /\ authd[step.s] /\ uid[step.s] # Null /\ subscriptions[step.s] # {}

\* ------------------------------------------------------------ events

\* The event tags of the event protocol.
WireEvents ==
  {"verify-success", "error", "subscribe-success", "get-success", "post-success",
   "appointments", "chats", "messages", "user"}

\* The event tags of the frames the last step sent.
Tags == {step.events[i].event : i \in 1..Len(step.events)}

\* C11 (as claimed): every frame a session sends carries one of the tags
\* verify-success, error, subscribe-success, get-success, post-success,
\* appointments, chats, messages, user.
C11_EventTagsFixed == Tags \subseteq WireEvents

\* C11 (amended): every frame a session sends carries one of these nine tags
\* or fetch-success, the tag #fetchUser reports a cached profile with; a
\* verify-success is preceded by a fetch-success of the same run.
C11_EventTagsWithFetch ==
  /\ Tags \subseteq WireEvents \cup {"fetch-success"}
  /\ "verify-success" \in Tags =>
       (Len(step.events) = 2 /\ step.events[1].event = "fetch-success")
  /\ step.kind = "snapshot" => Tags = {queries[step.s][step.h].kind}

\* C11 witness: the run that completes a verify request has sent
\* fetch-success and then verify-success.
C11_VerifySuccessSent ==
  step.kind = "verifyDone" /\ Tags = {"fetch-success", "verify-success"}

\* ------------------------------------------------------------ bulk cancellation

\* The last step of s was a logout that passed the gate, or the close.
BulkCancel(s) ==
  /\ step'.s = s
  /\ \/ step'.kind = "close"
     \/ step'.kind \in {"message", "malformed"} /\ step'.req.type = "logout" /\ uid[s] # Null

\* C12 (as claimed): a logout or close of a session calls the unsubscribe
\* function of every subscription in its registry, each once, whether or not
\* one of them throws; and the close removes the session from the pool.
C12_BulkCancelReachesAll ==
  [][\A s \in Sessions :
       BulkCancel(s)
       => /\ \A p \in subscriptions[s] :
               queries'[s][p[2]].cancels = queries[s][p[2]].cancels + 1
          /\ step'.kind = "close"
             => (removals'[s] = 1 /\ \A p \in connectionPool' : p[2] # s)]_vars

\* C13 (as claimed): a frame that is no JSON, or a request without params,
\* is dropped or closes its session; it raises no exception out of the
\* 'message' listener and none that nobody handles, so the process and the
\* other sessions go on.
C13_MalformedFrameContained ==
  step.kind = "malformed" => ~crashed

\* ------------------------------------------------------------ pool and sessions

\* The sessions whose transport has connected and not yet closed.
Live == {s \in Sessions : conn[s] = "open"}

\* C14: while the process runs, the pool holds exactly the live sessions,
\* each under its own #id, and no two live sessions have the same id; the
\* pool changes only by the entry a 'connection' adds for the new session
\* and the entry a 'close' removes for the closing one.
C14_PoolHoldsLiveSessions ==
  /\ [](~crashed =>
          /\ connectionPool = {<<id[s], s>> : s \in Live}
          /\ \A s, t \in Live : s # t => id[s] # id[t]
          /\ Cardinality(Keys(connectionPool)) = Cardinality(Live))
  /\ [][/\ step'.kind = "connection" =>
             (/\ ~MapHas(connectionPool, id'[step'.s])
              /\ connectionPool' = connectionPool \cup {<<id'[step'.s], step'.s>>})
        /\ (step'.kind = "close" /\ ~crashed') =>
             (/\ <<id[step'.s], step'.s>> \in connectionPool
              /\ connectionPool' = connectionPool \ {<<id[step'.s], step'.s>>})
        /\ step'.kind \notin {"connection", "close"} => connectionPool' = connectionPool]_vars

\* C14 witness: two sessions are live at once, after one of them has been
\* through a verify.
C14_TwoLiveSessions ==
  /\ Cardinality(Live) = 2 /\ Cardinality(connectionPool) = 2
  /\ \E s \in Live : verified[s]

\* C15: a task of one session (a request it handles, its close, one of its
\* promise continuations or snapshots) leaves #uid, #user, the registry, the
\* live queries and the pending promises of every other session as they
\* were and the process running, so the other session's live queries go on
\* delivering snapshots.
C15_OtherSessionUntouched ==
  [][\A s, t \in Sessions :
       (s # t /\ step'.s = s /\ step'.kind # "init")
       => /\ uid'[t] = uid[t] /\ user'[t] = user[t]
          /\ subscriptions'[t] = subscriptions[t]
          /\ queries'[t] = queries[t]
          /\ tasks'[t] = tasks[t]
          /\ crashed' = crashed]_vars

\* Session s has cancelled a live query of this collection.
Cancelled(s, kind) ==
  \E h \in 1..Len(queries[s]) : queries[s][h].kind = kind /\ queries[s][h].cancels = 1

\* C15 witness: a session receives the snapshot of its user subscription
\* after the other session, which had subscribed to the same query, has
\* cancelled its own and closed.
C15_SnapshotAfterOtherClosed ==
  /\ step.kind = "snapshot" /\ step.s = "s2"
  /\ queries["s2"][step.h].kind = "user"
  /\ conn["s1"] = "closed" /\ Cancelled("s1", "user")

\* ------------------------------------------------------------ one-shot operations

\* The success event of a get or post request.
Success(k, ref) == Ev(IF k = "get" THEN "get-success" ELSE "post-success", ref, None)

\* C16 (as claimed): a get or post request of a known collection kind that
\* an authenticated session handles stays pending under its ref; each store
\* call that completes for a pending request either leaves the request
\* pending on its next store call, with nothing sent, or ends it with its
\* one success event, which carries the ref of that request; and a success
\* event is sent only as the end of a pending request of that ref.
C16_OneSuccessPerRequest ==
  [][\A s \in Sessions :
       /\ (/\ step'.kind = "message" /\ step'.s = s /\ authd[s]
           /\ \/ step'.req.type = "get" /\ step'.req.collection \in GetKinds
              \/ step'.req.type = "post" /\ step'.req.collection \in PostKinds)
          => (/\ step'.events = <<>>
              /\ \E t \in tasks'[s] \ tasks[s] :
                   t.k = step'.req.type /\ t.ref = step'.req.ref)
       /\ (step'.kind = "resume" /\ step'.s = s)
          => \E t \in tasks[s] \ tasks'[s] :
               \/ /\ step'.events = <<>>
                  /\ tasks'[s] = (tasks[s] \ {t}) \cup {[t EXCEPT !.left = @ - 1]}
                  /\ t.left > 1
               \/ /\ step'.events = <<Success(t.k, t.ref)>>
                  /\ tasks'[s] = tasks[s] \ {t}]_vars

\* ------------------------------------------------------------ registry and gate

\* C17 (as claimed): when a session sends subscribe-success with a sid, the
\* sid is a key of its registry, mapped to the unsubscribe function of the
\* live query this request opened for its collection, which has not been
\* called.
C17_AnnouncedSidRegistered ==
  \A x \in Returned :
    /\ MapHas(subscriptions[step.s], x)
    /\ LET h == MapGet(subscriptions[step.s], x)
       IN /\ h = Len(queries[step.s])
          /\ queries[step.s][h].kind = step.req.collection
          /\ queries[step.s][h].cancels = 0
          /\ Op("onSnapshot", step.req.collection, None, None) \in step.ops

\* C18 (as claimed): in every state of a session, after logout and after
\* close too, each id in its registry maps to an unsubscribe function that
\* has not been called.
C18_RegistryHandlesLive ==
  \A s \in Sessions : \A p \in subscriptions[s] : queries[s][p[2]].cancels = 0

\* C19 (as claimed): every request that passes the gate of #handleMessage
\* and is dispatched to a handler finds both #uid and the cached profile
\* #user present.
C19_PastGateSeesProfile ==
  [][\A s \in Sessions :
       (/\ step'.kind = "message" /\ step'.s = s
        /\ step'.req.type \in WireTypes \cup {"fetch"}
        /\ step'.req.type # "verify"
        /\ uid[s] # Null)
       => user[s] # Null]_vars

\* C20 (as claimed): after the close of a session has run, no task of that
\* session sends an event.
C20_SilentAfterClose ==
  (step.s \in Sessions /\ conn[step.s] = "closed" /\ step.kind # "close")
  => step.events = <<>>

\* ------------------------------------------------------------ subject

\* The last step wrote active=true for a subject.
WroteActive == \E op \in step.ops : op.op = "set" /\ op.coll = "users" /\ op.val = "active"

\* C21 (as claimed): after the close of a session has run, no task of that
\* session writes active=true for a subject.
C21_NoActiveAfterClose ==
  (step.s \in Sessions /\ conn[step.s] = "closed" /\ step.kind # "close")
  => ~WroteActive

\* The step to come is a logout that passes the gate of session s.
LogoutHandled(s) ==
  step'.kind = "message" /\ step'.s = s /\ step'.req.type = "logout" /\ uid[s] # Null

\* C22 (as claimed): #uid changes only from null to a subject, in the
\* continuation of a verify, or from a subject to null, by a logout; a
\* session that has sent verify-success and not logged out keeps its subject.
C22_SubjectSetOnce ==
  [][\A s \in Sessions :
       uid'[s] # uid[s]
       => \/ uid[s] = Null /\ step'.kind = "verifyThen" /\ step'.s = s
          \/ uid'[s] = Null /\ LogoutHandled(s)]_vars

\* C23 (as claimed): a session sends get-success or post-success only while
\* it is authenticated: after a verify-success and before the next logout.
C23_NoResultAfterLogout ==
  (Tags \cap {"get-success", "post-success"} # {}) => authd[step.s]

\* C24 (as claimed): the chat document a chat-id lookup adds has as patient
\* the subject the session had when it handled the request, never null and
\* never another subject.
C24_ChatPatientIsRequester ==
  [][\A s \in Sessions :
       (step'.kind = "resume" /\ step'.s = s)
       => \A t \in tasks[s] \ tasks'[s] :
            \A op \in step'.ops :
              (op.op = "add" /\ op.coll = "chats") => (op.doc = t.u /\ op.doc # Null)]_vars

\* C25 (as claimed): the store never holds more than one chat document for
\* one doctor and patient.
C25_OneChatPerPair == \A p \in Patients : chats[p] <= 1

====
